---------------------------- MODULE Spec2Model ----------------------------
(***************************************************************************)
(* A model of swipe-file-scout: the Reddit classifier and the selection    *)
(* loops of src/scout.py, and the story store of                           *)
(* src/google_alerts_monitor.py.                                           *)
(*                                                                         *)
(* Text is modelled at word level: a string is a sequence of words, a      *)
(* phrase is a sequence of words, and Python's `phrase in text` is         *)
(* "phrase is a contiguous run of words of text".  The word " " stands for *)
(* surplus white space, "?" for a question mark.  Confidences are in       *)
(* hundredths (0.95 is 95), sentiments in hundredths (-0.5 is -50), scores *)
(* in hundredths of the Python value, all exact.                           *)
(***************************************************************************)
EXTENDS Integers, Sequences, FiniteSets, TLC

VARIABLES
    \* ---- classify_reddit_content called on its own
    cpc,            \* "input" before the call, "classified" after it
    title,          \* the title argument
    selftext,       \* the selftext argument
    result,         \* the returned (category, confidence)
    \* ---- one scout process: reddit_insight / reddit_story
    fn,             \* the function running: "reddit_insight", "reddit_story", "none"
    pc,             \* "loop" inside the search loop, "done" after the return
    run,            \* 1 for the first run of scout, 2 for the run after it
    sidx,           \* index of the search (or query) being iterated
    fetched,        \* posts handed out by the API so far in this run
    best_candidate, \* reddit_insight: best_candidate / reddit_story: best_post
    best_score,     \* best_score of either function
    returned,       \* the block the function returned (None before)
    accepted,       \* history: the candidates that reached scoring, in order
    last,           \* history: what happened to the post handled last
    first_digest,   \* history: native id of the post in the first run's block
    \* ---- the scoring arithmetic applied to a pair of candidates
    spc,            \* "input" before scoring, "scored" after it
    cand_a, cand_b, \* two candidates: upvotes, confidence, category
    score_a, score_b,
    \* ---- GoogleAlertsSuccessMonitor: the stories file and the runs on it
    stories_file,     \* linkedin_success_stories.json: NoFile or its contents
    today,            \* the wall clock, in days
    mpc,              \* per monitor process: "idle", "scan"
    stories_data,     \* per monitor: the local stories_data
    existing_stories, \* per monitor: the local dict id -> story, in insertion order
    new_stories,      \* per monitor: the local new_stories
    processed_links,  \* per monitor: the local processed_links
    runs,             \* history: runs of process_new_stories started so far
    loaded,           \* history: per monitor, its load: when, from what, what, and
                      \* whether the run skipped a link whose id it had loaded
    links_seen,       \* history: links handed out so far, over all runs
    dup_skipped,      \* history: a link was skipped whose id this run had accepted
    reported,         \* history: the new_stories each finished run returned
    overlapped,       \* history: some run started while another was under way
    faults,           \* history: "load" once a load raised, "save" once a save failed
    \* ---- one run of scout.main, of run_story_scan, or a call of format_digest
    prog,           \* "scout", "monitor", "format_digest", "none"
    env,            \* os.environ: each variable a string, absent ones empty
    mainpc,         \* the statement main (or run_story_scan) is at
    blocks,         \* main: the list blocks; the argument of format_digest
    digest,         \* main: digest; the value format_digest returned
    outcomes,       \* history: how each source call ended, in call order
    sinks,          \* history: the sink calls of the run and their results
    status          \* run_story_scan: the 'status' of the dict it returned

classVars == <<cpc, title, selftext, result>>
scoutVars == <<fn, pc, run, sidx, fetched, best_candidate, best_score,
               returned, accepted, last, first_digest>>
scoreVars == <<spc, cand_a, cand_b, score_a, score_b>>
alertVars == <<stories_file, today, mpc, stories_data, existing_stories,
               new_stories, processed_links, runs, loaded, dup_skipped,
               reported, overlapped, links_seen, faults>>
mainVars == <<prog, env, mainpc, blocks, digest, outcomes, sinks, status>>
vars == <<classVars, scoutVars, scoreVars, alertVars, mainVars>>

\* Python's None where a record may stand, and where a string may stand
None == [none |-> TRUE]
NoString == "None"

(***************************************************************************)
(* Words and phrases                                                       *)
(***************************************************************************)

\* str.lower() on the words of the model's vocabulary
LowerWord(w) ==
    CASE w = "Unemployment" -> "unemployment"
      [] w = "Coursera"     -> "coursera"
      [] w = "Hired"        -> "hired"
      [] w = "Just"         -> "just"
      [] w = "IT"           -> "it"
      [] OTHER              -> w

Lower(text) == [i \in DOMAIN text |-> LowerWord(text[i])]

\* Python's `phrase in text`
Contains(text, phrase) ==
    \E i \in 1..(Len(text) - Len(phrase) + 1) :
        SubSeq(text, i, i + Len(phrase) - 1) = phrase

ContainsAny(text, phrases) == \E p \in phrases : Contains(text, p)

\* str.strip(): surplus white space removed at both ends
RECURSIVE Strip(_)
Strip(text) ==
    IF text = <<>> THEN text
    ELSE IF Head(text) = " " THEN Strip(Tail(text))
    ELSE IF text[Len(text)] = " " THEN Strip(SubSeq(text, 1, Len(text) - 1))
    ELSE text

\* str.endswith("?")
EndsWithQuestionMark(text) == text # <<>> /\ text[Len(text)] = "?"

\* title + " " + selftext: the separating blank is a word boundary
Combine(t, s) == t \o s

pain_indicators ==
    { <<"why", "is", "it", "so", "hard">>, <<"why", "is", "it", "hard">>,
      <<"struggling", "to", "find">>, <<"can't", "find", "a", "job">>,
      <<"difficulty", "finding">>, <<"impossible", "to", "get">>,
      <<"no", "luck", "finding">>, <<"rejected", "from">>,
      <<"unemployment">>, <<"job", "search", "struggles">>,
      <<"been", "applying", "for", "months">>,
      <<"getting", "discouraged">>, <<"feeling", "stuck">>,
      <<"hard", "to", "find", "entry", "level">>,
      <<"entry", "level", "so", "hard">>, <<"no", "entry", "level", "jobs">> }

question_indicators ==
    { <<"can", "i", "get">>, <<"should", "i">>, <<"is", "it", "worth">>,
      <<"how", "do", "i">>, <<"what", "do", "you", "think">>,
      <<"advice", "needed">>, <<"help", "me">>, <<"recommendations">>,
      <<"which", "course">>, <<"best", "way", "to">>, <<"how", "to", "start">>,
      <<"career", "switch", "at">>, <<"will", "this", "help">> }

coursera_success_keywords ==
    { <<"coursera", "got", "me", "a", "job">>,
      <<"coursera", "helped", "me", "get", "hired">>,
      <<"coursera", "landed", "me">>,
      <<"google", "certificate", "got", "me", "hired">>,
      <<"google", "it", "support", "got", "me", "job">>,
      <<"coursera", "career", "change", "success">>,
      <<"got", "promoted", "after", "coursera">> }

coursera_mentions ==
    { <<"coursera">>, <<"google", "certificate">>, <<"google", "it", "support">> }

success_terms ==
    { <<"got", "a", "job">>, <<"landed", "a", "job">>, <<"got", "hired">>,
      <<"job", "offer">>, <<"promotion">> }

completion_keywords ==
    { <<"just", "completed", "coursera">>, <<"finished", "coursera", "course">>,
      <<"earned", "coursera", "certificate">>, <<"graduated", "from", "coursera">>,
      <<"completed", "andrew", "ng">>, <<"finished", "my", "coursera">> }

Verdict(c, conf) == [category |-> c, confidence |-> conf]

\* The rules of the classifier, each as the code tests it
PainRule(t)       == ContainsAny(Lower(t), pain_indicators)
QuestionRule(t)   == ContainsAny(Lower(t), question_indicators)
                        \/ EndsWithQuestionMark(Strip(t))
ExplicitRule(t, s) == ContainsAny(Lower(Combine(t, s)), coursera_success_keywords)
GeneralRule(t, s)  == /\ ContainsAny(Lower(Combine(t, s)), coursera_mentions)
                      /\ ContainsAny(Lower(Combine(t, s)), success_terms)
CompletionRule(t, s) == ContainsAny(Lower(Combine(t, s)), completion_keywords)

\* mutant: the success rules tested before the question rules
classify_success_before_question(t, s) ==
    IF PainRule(t) THEN Verdict("pain_point", 95)
    ELSE IF ExplicitRule(t, s) THEN Verdict("testimonial", 95)
    ELSE IF GeneralRule(t, s) THEN Verdict("testimonial", 80)
    ELSE IF ContainsAny(Lower(t), question_indicators) THEN Verdict("motivation", 90)
    ELSE IF EndsWithQuestionMark(Strip(t)) THEN Verdict("motivation", 85)
    ELSE IF CompletionRule(t, s) THEN Verdict("course_rec", 80)
    ELSE Verdict("motivation", 30)

\* mutant: the pain rule tested after the question rules
classify_question_before_pain(t, s) ==
    IF ContainsAny(Lower(t), question_indicators) THEN Verdict("motivation", 90)
    ELSE IF EndsWithQuestionMark(Strip(t)) THEN Verdict("motivation", 85)
    ELSE IF PainRule(t) THEN Verdict("pain_point", 95)
    ELSE IF ExplicitRule(t, s) THEN Verdict("testimonial", 95)
    ELSE IF GeneralRule(t, s) THEN Verdict("testimonial", 80)
    ELSE IF CompletionRule(t, s) THEN Verdict("course_rec", 80)
    ELSE Verdict("motivation", 30)

\* mutant: no general success rule, a text without an explicit Coursera
\* success phrase goes on to the completion rule
classify_without_general_rule(t, s) ==
    IF ContainsAny(Lower(t), pain_indicators) THEN Verdict("pain_point", 95)
    ELSE IF ContainsAny(Lower(t), question_indicators) THEN Verdict("motivation", 90)
    ELSE IF EndsWithQuestionMark(Strip(t)) THEN Verdict("motivation", 85)
    ELSE IF ContainsAny(Lower(Combine(t, s)), coursera_success_keywords)
        THEN Verdict("testimonial", 95)
    ELSE IF ContainsAny(Lower(Combine(t, s)), completion_keywords)
        THEN Verdict("course_rec", 80)
    ELSE Verdict("motivation", 30)

classify_reddit_content(t, s) ==
    IF ContainsAny(Lower(t), pain_indicators) THEN Verdict("pain_point", 95)
    ELSE IF ContainsAny(Lower(t), question_indicators) THEN Verdict("motivation", 90)
    ELSE IF EndsWithQuestionMark(Strip(t)) THEN Verdict("motivation", 85)
    ELSE IF ContainsAny(Lower(Combine(t, s)), coursera_success_keywords)
        THEN Verdict("testimonial", 95)
    ELSE IF /\ ContainsAny(Lower(Combine(t, s)), coursera_mentions)
            /\ ContainsAny(Lower(Combine(t, s)), success_terms)
        THEN Verdict("testimonial", 80)
    ELSE IF ContainsAny(Lower(Combine(t, s)), completion_keywords)
        THEN Verdict("course_rec", 80)
    ELSE Verdict("motivation", 30)

(***************************************************************************)
(* classify_reddit_content called on its own                               *)
(***************************************************************************)

\* words in the title and in the body handed to the classifier
MaxTitleLen == 2
MaxBodyLen == 2

Vocabulary ==
    { "unemployment", "Unemployment", "recommendations", "?", " ",
      "coursera", "promotion", "finished", "my" }

RECURSIVE SeqsUpTo(_, _)
SeqsUpTo(S, n) ==
    IF n = 0 THEN { <<>> }
    ELSE LET shorter == SeqsUpTo(S, n - 1)
         IN  shorter \cup { Append(q, w) : q \in shorter, w \in S }

ClassIdle ==
    /\ cpc = "idle"
    /\ title = <<>>
    /\ selftext = <<>>
    /\ result = None

InitClassify ==
    /\ cpc = "input"
    /\ title \in SeqsUpTo(Vocabulary, MaxTitleLen)
    /\ selftext \in SeqsUpTo(Vocabulary, MaxBodyLen)
    /\ result = None

Classify ==
    /\ cpc = "input"
    /\ result' = classify_reddit_content(title, selftext)
    /\ cpc' = "classified"
    /\ UNCHANGED <<title, selftext>>

(***************************************************************************)
(* reddit_insight and reddit_story                                         *)
(***************************************************************************)

\* posts handed out by the search API in one run
MaxPosts == 2

\* The posts the search API can hand out.  The native id names the post;
\* its text, the analyser's compound sentiment of that text and its age in
\* days belong to the post, its upvotes are what the API reports at fetch
\* time.
Texts ==
    { [id |-> "t3_hired",   title |-> <<"Just", "got", "hired", "after", "finishing",
                                        "my", "Coursera", "IT", "certificate">>,
                            selftext |-> <<>>,
                            sentiment |-> 60, age_days |-> 3],
      [id |-> "t3_offer",   title |-> <<"advice">>,
                            selftext |-> <<"coursera", "job", "offer">>,
                            sentiment |-> 30, age_days |-> 40],
      [id |-> "t3_landed",  title |-> <<"Coursera", "landed", "me">>,
                            selftext |-> <<>>,
                            sentiment |-> 60, age_days |-> 40],
      [id |-> "t3_stuck",   title |-> <<"feeling", "stuck">>,
                            selftext |-> <<"coursera", "promotion">>,
                            sentiment |-> -40, age_days |-> 3],
      [id |-> "t3_sad",     title |-> <<"Unemployment">>,
                            selftext |-> <<>>,
                            sentiment |-> -60, age_days |-> 3],
      [id |-> "t3_done",    title |-> <<"finished", "my", "coursera">>,
                            selftext |-> <<>>,
                            sentiment |-> 60, age_days |-> 3],
      [id |-> "t3_hello",   title |-> <<"hello">>,
                            selftext |-> <<>>,
                            sentiment |-> 60, age_days |-> 3] }

UpsValues == {2, 4, 12, 60}

PostPool ==
    { [id |-> t.id, title |-> t.title, selftext |-> t.selftext,
       ups |-> u, sentiment |-> t.sentiment, age_days |-> t.age_days] :
          t \in Texts, u \in UpsValues }

searches ==
    << [subreddit |-> "Coursera", type |-> "testimonial",
        min_ups |-> 3, min_sentiment |-> 40],
       [subreddit |-> "ITCareerQuestions", type |-> "testimonial",
        min_ups |-> 5, min_sentiment |-> 30],
       [subreddit |-> "ITCareerQuestions", type |-> "pain_point",
        min_ups |-> 50, min_sentiment |-> -50],
       [subreddit |-> "learnprogramming", type |-> "course_rec",
        min_ups |-> 10, min_sentiment |-> 30] >>

queries ==
    << <<"coursera", "completed", "specialization">>,
       <<"finished", "coursera", "course">>,
       <<"earned", "coursera", "certificate">>,
       <<"graduated", "coursera", "program">> >>

\* mutant: every category weighted like a testimonial
CategoryWeightFlat(type) == 10

\* lines 346-349: the multiplier of the search's type
CategoryWeight(type) ==
    IF type = "testimonial" THEN 10
    ELSE IF type = "pain_point" THEN 3
    ELSE 1

\* mutant: the staged sentiment bonus of the design notes
InsightScoreWithBonus(post, confidence, type) ==
    post.ups * confidence * CategoryWeight(type)
        * (IF post.sentiment > 50 THEN 18 ELSE IF post.sentiment > 30 THEN 14 ELSE 10)

\* lines 344-349, in hundredths
InsightScore(post, confidence, type) ==
    post.ups * confidence * CategoryWeight(type)

\* the "coursera" mention re-check of lines 339-342
MentionsCoursera(post) ==
    ContainsAny(Lower(Combine(post.title, post.selftext)),
                { <<"coursera">>, <<"google", "certificate">>, <<"google", "it">> })

\* mutant: the upvote threshold not applied
InsightOutcomeNoUps(post, search) ==
    LET v == classify_reddit_content(post.title, post.selftext)
    IN  IF v.category # search.type THEN "type_mismatch"
        ELSE IF v.confidence < 70 THEN "low_confidence"
        ELSE IF post.sentiment < search.min_sentiment THEN "low_sentiment"
        ELSE IF search.type = "testimonial" /\ ~MentionsCoursera(post)
            THEN "no_mention"
        ELSE "scored"

\* mutant: the category of the post is not compared with the search type
InsightOutcomeNoType(post, search) ==
    LET v == classify_reddit_content(post.title, post.selftext)
    IN  IF v.confidence < 70 THEN "low_confidence"
        ELSE IF post.ups < search.min_ups THEN "low_ups"
        ELSE IF post.sentiment < search.min_sentiment THEN "low_sentiment"
        ELSE IF search.type = "testimonial" /\ ~MentionsCoursera(post)
            THEN "no_mention"
        ELSE "scored"

\* lines 312-342: what the loop body does with one post of one search
InsightOutcome(post, search) ==
    LET v == classify_reddit_content(post.title, post.selftext)
    IN  IF v.category # search.type THEN "type_mismatch"
        ELSE IF v.confidence < 70 THEN "low_confidence"
        ELSE IF post.ups < search.min_ups THEN "low_ups"
        ELSE IF post.sentiment < search.min_sentiment THEN "low_sentiment"
        ELSE IF search.type = "testimonial" /\ ~MentionsCoursera(post)
            THEN "no_mention"
        ELSE "scored"

\* mutant: a tie replaces the candidate found earlier
BetterOrEqual(score, best) == score >= best

\* mutant: the score compared with the initial best_score, not the current
BetterThanInitial(score, best) == score > 0

\* lines 351 and 470: score > best_score
Better(score, best) == score > best

\* lines 353-361
Candidate(post, search, confidence, score) ==
    [data |-> post, type |-> search.type, subreddit |-> search.subreddit,
     sentiment |-> post.sentiment, upvotes |-> post.ups, score |-> score,
     confidence |-> confidence]

\* lines 371-376, without the emoji
type_labels ==
    [type \in {"testimonial", "pain_point", "motivation", "course_rec"} |->
        CASE type = "testimonial" -> "Coursera Success Story"
          [] type = "pain_point"  -> "Career Pain Point"
          [] type = "motivation"  -> "User Question"
          [] type = "course_rec"  -> "Course Experience"]

\* lines 366-388: the block reddit_insight returns for a candidate
InsightBlock(c) ==
    [source |-> "reddit_insight", header |-> "COURSERA SUCCESS STORY",
     subreddit |-> c.subreddit, headline |-> c.data.title,
     upvotes |-> c.upvotes, sentiment |-> c.sentiment, link |-> c.data.id]

ScoutIdle ==
    /\ fn = "none" /\ pc = "idle" /\ run = 1 /\ sidx = 1 /\ fetched = 0
    /\ best_candidate = None /\ best_score = 0 /\ returned = None
    /\ accepted = <<>> /\ last = NoString /\ first_digest = NoString

\* the locals of a fresh call: lines 290-291 and 427-428
FreshCall ==
    /\ pc' = "start" /\ sidx' = 1 /\ fetched' = 0
    /\ best_candidate' = None /\ best_score' = 0 /\ returned' = None
    /\ accepted' = <<>> /\ last' = NoString

InitScout ==
    /\ fn \in {"reddit_insight", "reddit_story"}
    /\ pc = "start" /\ run = 1 /\ sidx = 1 /\ fetched = 0
    /\ best_candidate = None /\ best_score = 0 /\ returned = None
    /\ accepted = <<>> /\ last = NoString /\ first_digest = NoString

\* lines 233-251 and 398-415: no credentials or no token returns None; a
\* token request that raises is turned into None by safe_api_call
StartNoAccess ==
    /\ fn \in {"reddit_insight", "reddit_story"}
    /\ pc = "start"
    /\ pc' = "done"
    /\ returned' = None
    /\ last' = "no_access"
    /\ UNCHANGED <<fn, run, sidx, fetched, best_candidate, best_score,
                   accepted, first_digest>>

StartLoop ==
    /\ fn \in {"reddit_insight", "reddit_story"}
    /\ pc = "start"
    /\ pc' = "loop"
    /\ UNCHANGED <<fn, run, sidx, fetched, best_candidate, best_score,
                   returned, accepted, last, first_digest>>

\* lines 305-361: one iteration of `for post in posts`
InsightPost(post) ==
    /\ fn = "reddit_insight"
    /\ pc = "loop"
    /\ sidx <= Len(searches)
    /\ fetched < MaxPosts
    /\ fetched' = fetched + 1
    /\ LET search  == searches[sidx]
           v       == classify_reddit_content(post.title, post.selftext)
           outcome == InsightOutcome(post, search)
           score   == InsightScore(post, v.confidence, search.type)
           cand    == Candidate(post, search, v.confidence, score)
       IN  /\ last' = outcome
           /\ IF outcome = "scored"
                THEN /\ accepted' = Append(accepted, [cand |-> cand, search |-> sidx])
                     /\ IF Better(score, best_score)
                          THEN /\ best_score' = score
                               /\ best_candidate' = cand
                          ELSE UNCHANGED <<best_score, best_candidate>>
                ELSE UNCHANGED <<accepted, best_score, best_candidate>>
    /\ UNCHANGED <<fn, pc, run, sidx, returned, first_digest>>

\* the result list of the search is exhausted: next search
InsightNextSearch ==
    /\ fn = "reddit_insight"
    /\ pc = "loop"
    /\ sidx <= Len(searches)
    /\ sidx' = sidx + 1
    /\ UNCHANGED <<fn, pc, run, fetched, best_candidate, best_score,
                   returned, accepted, last, first_digest>>

\* lines 299-300, 363-364: the request or a post of it raises; the rest of
\* this search is skipped
InsightSearchRaises ==
    /\ fn = "reddit_insight"
    /\ pc = "loop"
    /\ sidx <= Len(searches)
    /\ sidx' = sidx + 1
    /\ last' = "search_raised"
    /\ UNCHANGED <<fn, pc, run, fetched, best_candidate, best_score,
                   returned, accepted, first_digest>>

\* lines 366-390
InsightReturn ==
    /\ fn = "reddit_insight"
    /\ pc = "loop"
    /\ sidx > Len(searches)
    /\ pc' = "done"
    /\ returned' = IF best_candidate # None THEN InsightBlock(best_candidate)
                   ELSE None
    /\ UNCHANGED <<fn, run, sidx, fetched, best_candidate, best_score,
                   accepted, last, first_digest>>

\* lines 455: the words that make a title a question for reddit_story
story_question_words ==
    { <<"can", "i">>, <<"should", "i">>, <<"how", "do">>, <<"advice">> }

\* line 466
completion_words ==
    { <<"completed">>, <<"finished">>, <<"earned">>, <<"graduated">> }

\* lines 446-462: what the loop body does with one post
StoryOutcome(post) ==
    LET v == classify_reddit_content(post.title, post.selftext)
    IN  IF v.category \notin {"course_rec", "testimonial"} \/ v.confidence < 60
            THEN "not_a_story"
        ELSE IF \/ EndsWithQuestionMark(Strip(post.title))
                \/ ContainsAny(Lower(post.title), story_question_words)
            THEN "question"
        ELSE IF post.ups >= 3 /\ post.sentiment > 10 THEN "scored"
        ELSE "below_threshold"

\* lines 463-468, in 1/10000
StoryScore(post, confidence) ==
    post.ups * post.sentiment * confidence
        * (IF ContainsAny(Lower(Combine(post.title, post.selftext)), completion_words)
             THEN 3 ELSE 1)

\* lines 474-485: the block reddit_story returns; best_post is the post
StoryBlock(post, score) ==
    [source |-> "reddit_story", header |-> "COURSE COMPLETION",
     subreddit |-> "coursera", headline |-> post.title,
     upvotes |-> post.ups, quality |-> score, link |-> post.id]

\* lines 439-472: one iteration of `for post in children`
StoryPost(post) ==
    /\ fn = "reddit_story"
    /\ pc = "loop"
    /\ sidx <= Len(queries)
    /\ fetched < MaxPosts
    /\ fetched' = fetched + 1
    /\ LET v       == classify_reddit_content(post.title, post.selftext)
           outcome == StoryOutcome(post)
           score   == StoryScore(post, v.confidence)
       IN  /\ last' = outcome
           /\ IF outcome = "scored"
                THEN /\ accepted' = Append(accepted,
                            [cand |-> [data |-> post, type |-> v.category,
                                       subreddit |-> "coursera",
                                       sentiment |-> post.sentiment,
                                       upvotes |-> post.ups, score |-> score,
                                       confidence |-> v.confidence],
                             search |-> sidx])
                     /\ IF Better(score, best_score)
                          THEN /\ best_score' = score
                               /\ best_candidate' = post
                          ELSE UNCHANGED <<best_score, best_candidate>>
                ELSE UNCHANGED <<accepted, best_score, best_candidate>>
    /\ UNCHANGED <<fn, pc, run, sidx, returned, first_digest>>

\* the result list of the query is exhausted: next query
StoryNextQuery ==
    /\ fn = "reddit_story"
    /\ pc = "loop"
    /\ sidx <= Len(queries)
    /\ sidx' = sidx + 1
    /\ UNCHANGED <<fn, pc, run, fetched, best_candidate, best_score,
                   returned, accepted, last, first_digest>>

\* line 436 raises: nothing catches it inside reddit_story, safe_api_call
\* (lines 34-36) returns None
StoryRaises ==
    /\ fn = "reddit_story"
    /\ pc = "loop"
    /\ sidx <= Len(queries)
    /\ pc' = "done"
    /\ returned' = None
    /\ last' = "raised"
    /\ UNCHANGED <<fn, run, sidx, fetched, best_candidate, best_score,
                   accepted, first_digest>>

\* lines 474-487
StoryReturn ==
    /\ fn = "reddit_story"
    /\ pc = "loop"
    /\ sidx > Len(queries)
    /\ pc' = "done"
    /\ returned' = IF best_candidate # None THEN StoryBlock(best_candidate, best_score)
                   ELSE None
    /\ UNCHANGED <<fn, run, sidx, fetched, best_candidate, best_score,
                   accepted, last, first_digest>>

\* The next run of scout (a new process): main builds its blocks from fresh
\* calls, and nothing of the previous run is read (lines 551-563)
NextRun ==
    /\ fn \in {"reddit_insight", "reddit_story"}
    /\ pc = "done"
    /\ run = 1
    /\ run' = 2
    /\ first_digest' = IF returned # None THEN returned.link ELSE NoString
    /\ FreshCall
    /\ UNCHANGED fn

(***************************************************************************)
(* The scoring arithmetic on its own                                       *)
(***************************************************************************)

Categories == {"testimonial", "pain_point", "course_rec", "motivation"}
Confidences == {30, 80, 85, 90, 95}

ScoreIdle ==
    /\ spc = "idle" /\ cand_a = None /\ cand_b = None
    /\ score_a = 0 /\ score_b = 0

InitScore ==
    /\ spc = "input"
    /\ cand_a \in [ups : UpsValues, confidence : Confidences, type : Categories]
    /\ cand_b \in [ups : UpsValues, confidence : Confidences, type : Categories]
    /\ score_a = 0 /\ score_b = 0

ScorePair ==
    /\ spc = "input"
    /\ score_a' = InsightScore(cand_a, cand_a.confidence, cand_a.type)
    /\ score_b' = InsightScore(cand_b, cand_b.confidence, cand_b.type)
    /\ spc' = "scored"
    /\ UNCHANGED <<cand_a, cand_b>>

(***************************************************************************)
(* GoogleAlertsSuccessMonitor.process_new_stories                          *)
(***************************************************************************)

\* links handed out by the alert emails, over all runs
MaxLinks == 3
\* runs of process_new_stories started
MaxRuns == 2
\* the last day of the clock
MaxDay == 31

\* two invocations of the script (cron jobs) on the same working directory:
\* process slots, a starting process takes the first free one
Monitors == {1, 2}

\* the days that can pass between two runs
DayJumps == {29, 31}

NoFile == [missing |-> TRUE]

\* lines 37-44, in the order of the dict
high_value_keywords ==
    << [category |-> "career_transformation", points |-> 20, keywords |->
          { <<"career", "change">>, <<"switched", "careers">>, <<"new", "career">>,
            <<"transitioned", "to">>, <<"career", "pivot">> }],
       [category |-> "job_success", points |-> 15, keywords |->
          { <<"landed", "a", "job">>, <<"got", "hired">>, <<"new", "position">>,
            <<"job", "offer">>, <<"started", "working">> }],
       [category |-> "promotion", points |-> 15, keywords |->
          { <<"promoted", "to">>, <<"got", "promoted">>, <<"promotion">>,
            <<"new", "role", "as">> }],
       [category |-> "salary_impact", points |-> 12, keywords |->
          { <<"salary", "increase">>, <<"raise">>, <<"doubled", "my", "income">>,
            <<"better", "pay">>, <<"higher", "salary">> }],
       [category |-> "gratitude", points |-> 10, keywords |->
          { <<"grateful", "for">>, <<"thankful">>, <<"changed", "my", "life">>,
            <<"couldn't", "have", "done", "it", "without">> }],
       [category |-> "coursera_specific", points |-> 8, keywords |->
          { <<"coursera", "certificate">>, <<"google", "certificate">>,
            <<"coursera", "course">>, <<"andrew", "ng">> }] >>

\* The links extract_linkedin_links can hand out: a LinkedIn url (its path
\* kind and the rest of it) and the anchor text
LinkUrls ==
    { [path |-> "/posts/", rest |-> "ada"], [path |-> "/pulse/", rest |-> "bob"] }

LinkTexts == { <<"got", "Hired">>, <<"thankful">> }

LinkPool == { [url |-> u, text |-> t] : u \in LinkUrls, t \in LinkTexts }

RECURSIVE SumPoints(_, _)
\* lines 221-242: each category counts once, when one of its keywords occurs
SumPoints(text, k) ==
    IF k = 0 THEN 0
    ELSE SumPoints(text, k - 1)
            + (IF ContainsAny(text, high_value_keywords[k].keywords)
                 THEN high_value_keywords[k].points ELSE 0)

\* lines 212-249: the story_score (the signals are not modelled)
analyze_story_potential(link_data) ==
    SumPoints(Lower(link_data.text), Len(high_value_keywords))
        + (IF link_data.url.path \in {"/posts/", "/feed/"} THEN 5 ELSE 0)

\* lines 251-256: md5 of "<url>_<text>", first 16 hex digits; the digest is
\* taken as collision-free on the links of the model
create_story_id(link_data) == [md5 |-> <<link_data.url, "_", link_data.text>>]

\* a dict in insertion order: a sequence of stories of distinct ids
DictHas(d, id) == \E i \in DOMAIN d : d[i].id = id

DictPut(d, story) ==
    IF DictHas(d, story.id)
        THEN [i \in DOMAIN d |-> IF d[i].id = story.id THEN story ELSE d[i]]
        ELSE Append(d, story)

RECURSIVE DictOf(_)
\* line 264: {story['id']: story for story in stories_data['stories']}
DictOf(stories) ==
    IF stories = <<>> THEN <<>>
    ELSE DictPut(DictOf(SubSeq(stories, 1, Len(stories) - 1)), stories[Len(stories)])

\* line 95; a missing last_processed or total_links_processed is -1
EmptyStore == [stories |-> <<>>, last_processed |-> -1, total_links_processed |-> -1]

\* mutant: the file is not read, every run starts from the empty store
load_existing_stories_empty(file) == EmptyStore

\* lines 89-95: the contents of the file, or the empty store without a file
load_existing_stories(file) ==
    IF file = NoFile THEN EmptyStore ELSE file

\* mutant: a story is appended whether or not its id is in the dict
IsKnownNever(dict, id) == FALSE

\* line 280: story_id in existing_stories
IsKnown(dict, id) == DictHas(dict, id)

NoLoad == [at |-> 0, raised |-> FALSE, file |-> <<>>, stories |-> <<>>,
           skipped |-> FALSE]

AlertIdle ==
    /\ stories_file = NoFile /\ today = 0
    /\ mpc = [m \in Monitors |-> "off"]
    /\ stories_data = [m \in Monitors |-> EmptyStore]
    /\ existing_stories = [m \in Monitors |-> <<>>]
    /\ new_stories = [m \in Monitors |-> <<>>]
    /\ processed_links = [m \in Monitors |-> 0]
    /\ runs = 0 /\ reported = <<>> /\ overlapped = FALSE
    /\ dup_skipped = FALSE /\ links_seen = 0 /\ faults = {}
    /\ loaded = [m \in Monitors |-> NoLoad]

InitAlerts ==
    /\ stories_file = NoFile /\ today = 0
    /\ mpc = [m \in Monitors |-> "idle"]
    /\ stories_data = [m \in Monitors |-> EmptyStore]
    /\ existing_stories = [m \in Monitors |-> <<>>]
    /\ new_stories = [m \in Monitors |-> <<>>]
    /\ processed_links = [m \in Monitors |-> 0]
    /\ runs = 0 /\ reported = <<>> /\ overlapped = FALSE
    /\ dup_skipped = FALSE /\ links_seen = 0 /\ faults = {}
    /\ loaded = [m \in Monitors |-> NoLoad]

\* the locals of process_new_stories after lines 263-270
Begin(m, data, raised) ==
    /\ mpc[m] = "idle"
    /\ \A o \in Monitors : o < m => mpc[o] = "scan"
    /\ runs < MaxRuns
    /\ runs' = runs + 1
    /\ overlapped' = (overlapped \/ \E o \in Monitors \ {m} : mpc[o] = "scan")
    /\ stories_data' = [stories_data EXCEPT ![m] = data]
    /\ existing_stories' = [existing_stories EXCEPT ![m] = DictOf(data.stories)]
    /\ loaded' = [loaded EXCEPT ![m] =
                    [at |-> today, raised |-> raised,
                     file |-> IF stories_file = NoFile THEN <<>>
                              ELSE stories_file.stories,
                     stories |-> data.stories, skipped |-> FALSE]]
    /\ new_stories' = [new_stories EXCEPT ![m] = <<>>]
    /\ processed_links' = [processed_links EXCEPT ![m] = 0]
    /\ mpc' = [mpc EXCEPT ![m] = "scan"]
    /\ faults' = (IF raised THEN faults \cup {"load"} ELSE faults)
    /\ UNCHANGED <<stories_file, today, reported, dup_skipped, links_seen>>

\* lines 262-270, the load succeeding
Load(m) == Begin(m, load_existing_stories(stories_file), FALSE)

\* mutant: the load raises and the stories of the file are used all the same
LoadRaisesKeepsFile(m) ==
    /\ stories_file # NoFile
    /\ Begin(m, load_existing_stories(stories_file), TRUE)

\* lines 96-98: reading or parsing the file raises, the empty store is used
LoadRaises(m) ==
    /\ stories_file # NoFile
    /\ Begin(m, EmptyStore, TRUE)

\* lines 273-302: one iteration of `for link in email_info['links']`
ProcessLink(m, link) ==
    /\ mpc[m] = "scan"
    /\ links_seen < MaxLinks
    /\ links_seen' = links_seen + 1
    /\ processed_links' = [processed_links EXCEPT ![m] = @ + 1]
    /\ LET story_id    == create_story_id(link)
           story_score == analyze_story_potential(link)
           story       == [id |-> story_id, url |-> link.url, text |-> link.text,
                           story_score |-> story_score, found_date |-> today,
                           outreach_status |-> "pending"]
       IN  IF ~IsKnown(existing_stories[m], story_id) /\ story_score >= 15
             THEN /\ new_stories' = [new_stories EXCEPT ![m] = Append(@, story)]
                  /\ existing_stories' =
                        [existing_stories EXCEPT ![m] = DictPut(@, story)]
             ELSE UNCHANGED <<new_stories, existing_stories>>
    /\ dup_skipped' = (dup_skipped \/ DictHas(new_stories[m], create_story_id(link)))
    /\ loaded' = [loaded EXCEPT ![m].skipped =
                    @ \/ DictHas(loaded[m].stories, create_story_id(link))]
    /\ UNCHANGED <<stories_file, today, mpc, stories_data, runs,
                   reported, overlapped, faults>>

\* mutant: the stories accepted in the run are not put into stories_data
FinishedWithoutNew(m) ==
    [stories_data[m] EXCEPT !.last_processed = today,
                            !.total_links_processed = processed_links[m]]

\* lines 304-314 with stories_data as save_stories is given it
Finished(m) ==
    [stories_data[m] EXCEPT !.stories = existing_stories[m],
                            !.last_processed = today,
                            !.total_links_processed = processed_links[m]]

\* the process ends after the return of line 314: its locals are gone
Exit(m) ==
    /\ mpc' = [mpc EXCEPT ![m] = "idle"]
    /\ stories_data' = [stories_data EXCEPT ![m] = EmptyStore]
    /\ existing_stories' = [existing_stories EXCEPT ![m] = <<>>]
    /\ new_stories' = [new_stories EXCEPT ![m] = <<>>]
    /\ processed_links' = [processed_links EXCEPT ![m] = 0]
    /\ loaded' = [loaded EXCEPT ![m] = NoLoad]

\* lines 304-314, the file written (lines 100-104)
Save(m) ==
    /\ mpc[m] = "scan"
    /\ stories_file' = Finished(m)
    /\ reported' = Append(reported, new_stories[m])
    /\ Exit(m)
    /\ UNCHANGED <<today, runs, overlapped, dup_skipped, links_seen, faults>>

\* lines 304-314, the write failing (lines 105-106): logged, file as it was
SaveFails(m) ==
    /\ mpc[m] = "scan"
    /\ reported' = Append(reported, new_stories[m])
    /\ Exit(m)
    /\ faults' = faults \cup {"save"}
    /\ UNCHANGED <<stories_file, today, runs, overlapped, dup_skipped, links_seen>>

\* days pass between runs (a run lasts well under a day)
TimePasses(d) ==
    /\ \A m \in Monitors : mpc[m] = "idle"
    /\ today + d <= MaxDay
    /\ today' = today + d
    /\ UNCHANGED <<stories_file, mpc, stories_data, existing_stories,
                   new_stories, processed_links, runs, loaded, reported,
                   overlapped, dup_skipped, links_seen, faults>>

(***************************************************************************)
(* scout.main: the three sources, format_digest and the sinks.  A string   *)
(* is a record here, so that it can be told from None.                     *)
(***************************************************************************)

\* the length of the list handed to format_digest
MaxBlocks == 3

\* the empty string, where a block may stand
EmptyString == [empty |-> TRUE]

\* lines 109-114, 122-127, 185-190 and 220-225: the strings meta_ad returns
MetaPending     == [source |-> "meta_ad", header |-> "META AD LIBRARY ACCESS PENDING"]
MetaTokenIssue  == [source |-> "meta_ad", header |-> "META AD LIBRARY TOKEN ISSUE"]
MetaNoResults   == [source |-> "meta_ad", header |-> "META AD LIBRARY NO RESULTS"]
MetaInspiration == [source |-> "meta_ad", header |-> "META AD INSPIRATION"]

\* a post the Reddit searches hand out, and the blocks made of it
SamplePost == CHOOSE p \in PostPool : p.id = "t3_hired" /\ p.ups = 12

SampleInsight ==
    InsightBlock(Candidate(SamplePost, searches[1], 80,
                           InsightScore(SamplePost, 80, "testimonial")))

SampleStory == StoryBlock(SamplePost, StoryScore(SamplePost, 80))

\* line 493: the truth value of `section`
Truthy(section) == section # None /\ section # EmptyString

\* lines 502-504: the empty line and the bold separator
EmptyLine == [line |-> ""]
Separator == [line |-> "**--------------------**"]

\* mutant: a separator in front of every block, the first included
format_digest_leading_separator(sections) ==
    LET valid_blocks == SelectSeq(sections, Truthy)
        F[i \in 0..Len(valid_blocks)] ==
            IF i = 0 THEN <<>>
            ELSE F[i - 1] \o <<EmptyLine, Separator, EmptyLine>> \o <<valid_blocks[i]>>
    IN  IF valid_blocks = <<>> THEN None
        ELSE [text |-> F[Len(valid_blocks)]]

\* lines 491-507: the joined string is kept as the sequence of the pieces
\* that "\n".join puts together
format_digest(sections) ==
    LET valid_blocks == SelectSeq(sections, Truthy)
        F[i \in 0..Len(valid_blocks)] ==
            IF i = 0 THEN <<>>
            ELSE F[i - 1]
                   \o (IF i > 1 THEN <<EmptyLine, Separator, EmptyLine>> ELSE <<>>)
                   \o <<valid_blocks[i]>>
    IN  IF valid_blocks = <<>> THEN None
        ELSE [text |-> F[Len(valid_blocks)]]

\* lines 566-570
FallbackInsight == [text |-> <<[line |-> "*Fallback Insight*"]>>]

\* lines 574-577
FullMsg(d) ==
    [header |-> "COURSERA AD INSPIRATION DIGEST", digest |-> d,
     footer |-> "Generated by Swipe-File Scout"]

\* the values a block of the list can have
BlockValues == {None, EmptyString, MetaInspiration, SampleInsight, SampleStory}

NoEnv == [unset |-> TRUE]

MainIdle ==
    /\ prog = "none" /\ env = NoEnv /\ mainpc = "off"
    /\ blocks = <<>> /\ digest = None
    /\ outcomes = <<>> /\ sinks = <<>> /\ status = NoString

\* format_digest applied to every list of up to MaxBlocks blocks
InitDigest ==
    /\ prog = "format_digest" /\ env = NoEnv /\ mainpc = "call"
    /\ blocks \in SeqsUpTo(BlockValues, MaxBlocks)
    /\ digest = None
    /\ outcomes = <<>> /\ sinks = <<>> /\ status = NoString

FormatDigest ==
    /\ prog = "format_digest" /\ mainpc = "call"
    /\ digest' = format_digest(blocks)
    /\ mainpc' = "returned"
    /\ UNCHANGED <<prog, env, blocks, outcomes, sinks, status>>

\* os.environ as the runs see it; a value is the sequence of its tokens,
\* <<>> for a variable that is absent (the "" default of every lookup)
Environments ==
    { [FB_TOKEN |-> fb, REDDIT_ID |-> id, REDDIT_SECRET |-> secret,
       SLACK_WEBHOOK |-> hook, EMAIL_FROM |-> from,
       EMAIL_PW |-> <<"pw">>, EMAIL_TO |-> <<"to">>,
       GMAIL_USER |-> <<>>, GMAIL_APP_PASSWORD |-> <<>>] :
          fb \in { <<>>, <<"token">> },
          id \in { <<>>, <<" ">>, <<"id">> },
          secret \in { <<>>, <<"secret">> },
          hook \in { <<>>, <<"hook">> },
          from \in { <<>>, <<"me">> } }

\* how the function handed to safe_api_call ended, and what it returned
Returned(how, value) == [how |-> how, value |-> value]
Raised == [how |-> "raised", value |-> None]

\* lines 105-225: without FB_TOKEN the ACCESS PENDING string; with it, the
\* token test raising (None, lines 128-130), the TOKEN ISSUE string, the
\* NO RESULTS string, the ad block, or an exception left uncaught
MetaAdResults(e) ==
    IF Strip(e.FB_TOKEN) = <<>>
      THEN { Returned("no_credential", MetaPending) }
      ELSE { Returned("returned", None), Returned("returned", MetaTokenIssue),
             Returned("returned", MetaNoResults),
             Returned("returned", MetaInspiration), Raised }

\* lines 232-390: None without credentials; with them the token request
\* raising, None, or the block of the best candidate
RedditInsightResults(e) ==
    IF ~(Strip(e.REDDIT_ID) # <<>> /\ Strip(e.REDDIT_SECRET) # <<>>)
      THEN { Returned("no_credential", None) }
      ELSE { Returned("returned", None), Returned("returned", SampleInsight), Raised }

\* lines 397-487: the credentials are not stripped here; a blank one is sent
\* to Reddit, which grants no token for it
RedditStoryResults(e) ==
    IF e.REDDIT_ID = <<>> \/ e.REDDIT_SECRET = <<>>
      THEN { Returned("no_credential", None) }
      ELSE { Returned("returned", None), Raised }
             \cup (IF Strip(e.REDDIT_ID) # <<>> /\ Strip(e.REDDIT_SECRET) # <<>>
                     THEN { Returned("returned", SampleStory) } ELSE {})

\* mutant: every call degrades to None, also one that returned a block
safe_api_call_none(r) == None

\* lines 26-36
safe_api_call(r) == IF r.how = "raised" THEN None ELSE r.value

\* lines 509-523: the result of send_slack
SlackResults(e) ==
    IF Strip(e.SLACK_WEBHOOK) = <<>> THEN {"not_configured"} ELSE {"sent", "failed"}

\* lines 525-549: the result of send_email
EmailResults(e) ==
    IF Strip(e.EMAIL_FROM) # <<>> /\ Strip(e.EMAIL_PW) # <<>> /\ Strip(e.EMAIL_TO) # <<>>
      THEN {"sent", "failed"} ELSE {"not_configured"}

SinkCall(sink, outcome, msg) == [sink |-> sink, result |-> outcome, msg |-> msg]

InitMainScout ==
    /\ prog = "scout" /\ env \in Environments /\ mainpc = "meta_ad"
    /\ blocks = <<>> /\ digest = None
    /\ outcomes = <<>> /\ sinks = <<>> /\ status = NoString

\* lines 554-558: one element of the list blocks
CallSource(name, results, next) ==
    /\ prog = "scout" /\ mainpc = name
    /\ \E r \in results :
          /\ blocks' = Append(blocks, safe_api_call(r))
          /\ outcomes' = Append(outcomes, [source |-> name, how |-> r.how,
                                           value |-> r.value])
    /\ mainpc' = next
    /\ UNCHANGED <<prog, env, digest, sinks, status>>

MetaAd == CallSource("meta_ad", MetaAdResults(env), "reddit_insight")

RedditInsight == CallSource("reddit_insight", RedditInsightResults(env), "reddit_story")

RedditStory == CallSource("reddit_story", RedditStoryResults(env), "format")

\* mutant: the digest is left as format_digest returned it
MainDigestNoFallback ==
    /\ prog = "scout" /\ mainpc = "format"
    /\ digest' = format_digest(blocks)
    /\ mainpc' = IF format_digest(blocks) = None THEN "end" ELSE "send_slack"
    /\ UNCHANGED <<prog, env, blocks, outcomes, sinks, status>>

\* lines 560-577
MainDigest ==
    /\ prog = "scout" /\ mainpc = "format"
    /\ digest' = (IF format_digest(blocks) = None THEN FallbackInsight
                  ELSE format_digest(blocks))
    /\ mainpc' = "send_slack"
    /\ UNCHANGED <<prog, env, blocks, outcomes, sinks, status>>

\* line 579
MainSendSlack ==
    /\ prog = "scout" /\ mainpc = "send_slack"
    /\ \E r \in SlackResults(env) :
          /\ sinks' = Append(sinks, SinkCall("slack", r, FullMsg(digest)))
          /\ mainpc' = IF r = "sent" THEN "end" ELSE "send_email"
    /\ UNCHANGED <<prog, env, blocks, digest, outcomes, status>>

\* lines 581-584
MainSendEmail ==
    /\ prog = "scout" /\ mainpc = "send_email"
    /\ \E r \in EmailResults(env) :
          sinks' = Append(sinks, SinkCall("email", r, FullMsg(digest)))
    /\ mainpc' = "end"
    /\ UNCHANGED <<prog, env, blocks, digest, outcomes, status>>

(***************************************************************************)
(* GoogleAlertsSuccessMonitor.run_story_scan: one process, its runs one    *)
(* after the other                                                         *)
(***************************************************************************)

\* lines 27-28: os.getenv(a, "") or os.getenv(b, "")
gmail_user(e) == IF e.GMAIL_USER # <<>> THEN e.GMAIL_USER ELSE e.EMAIL_FROM

gmail_password(e) ==
    IF e.GMAIL_APP_PASSWORD # <<>> THEN e.GMAIL_APP_PASSWORD ELSE e.EMAIL_PW

\* lines 392-406: the result of send_slack_notification
ScanSlackResults(e) ==
    IF e.SLACK_WEBHOOK = <<>> THEN {"not_configured"} ELSE {"sent", "failed"}

\* the stories file and the locals of the one process that runs
AlertsOne ==
    /\ stories_file = NoFile /\ today = 0
    /\ mpc = [m \in Monitors |-> IF m = 1 THEN "idle" ELSE "off"]
    /\ stories_data = [m \in Monitors |-> EmptyStore]
    /\ existing_stories = [m \in Monitors |-> <<>>]
    /\ new_stories = [m \in Monitors |-> <<>>]
    /\ processed_links = [m \in Monitors |-> 0]
    /\ runs = 0 /\ reported = <<>> /\ overlapped = FALSE
    /\ dup_skipped = FALSE /\ links_seen = 0 /\ faults = {}
    /\ loaded = [m \in Monitors |-> NoLoad]

\* the monitor reads neither FB_TOKEN nor the Reddit credentials
InitMainScan ==
    /\ prog = "monitor" /\ mainpc = "scan_start"
    /\ env \in { e \in Environments :
                    e.FB_TOKEN = <<>> /\ e.REDDIT_ID = <<>> /\ e.REDDIT_SECRET = <<>> }
    /\ blocks = <<>> /\ digest = None
    /\ outcomes = <<>> /\ sinks = <<>> /\ status = NoString

\* lines 412-419
ScanSetupRequired ==
    /\ prog = "monitor" /\ mainpc = "scan_start"
    /\ ~(gmail_user(env) # <<>> /\ gmail_password(env) # <<>>)
    /\ status' = "setup_required"
    /\ mainpc' = "end"
    /\ UNCHANGED <<prog, env, blocks, digest, outcomes, sinks>>
    /\ UNCHANGED alertVars

\* lines 421-423 and 262-270
ScanLoad ==
    /\ prog = "monitor" /\ mainpc = "scan_start"
    /\ gmail_user(env) # <<>> /\ gmail_password(env) # <<>>
    /\ Load(1)
    /\ mainpc' = "scan_links"
    /\ UNCHANGED <<prog, env, blocks, digest, outcomes, sinks, status>>

\* the same, the load raising
ScanLoadRaises ==
    /\ prog = "monitor" /\ mainpc = "scan_start"
    /\ gmail_user(env) # <<>> /\ gmail_password(env) # <<>>
    /\ LoadRaises(1)
    /\ mainpc' = "scan_links"
    /\ UNCHANGED <<prog, env, blocks, digest, outcomes, sinks, status>>

\* lines 272-302
ScanLink ==
    /\ prog = "monitor" /\ mainpc = "scan_links"
    /\ \E link \in LinkPool : ProcessLink(1, link)
    /\ UNCHANGED mainVars

\* lines 304-314 and 426, the report made of the stories_data returned
ScanSave ==
    /\ prog = "monitor" /\ mainpc = "scan_links"
    /\ Save(1)
    /\ digest' = [report |-> Finished(1).stories]
    /\ mainpc' = "scan_slack"
    /\ UNCHANGED <<prog, env, blocks, outcomes, sinks, status>>

\* the same, the write failing
ScanSaveFails ==
    /\ prog = "monitor" /\ mainpc = "scan_links"
    /\ SaveFails(1)
    /\ digest' = [report |-> Finished(1).stories]
    /\ mainpc' = "scan_slack"
    /\ UNCHANGED <<prog, env, blocks, outcomes, sinks, status>>

\* lines 442-447: an exception inside the try block
ScanRaises ==
    /\ prog = "monitor" /\ mainpc = "scan_links"
    /\ Exit(1)
    /\ status' = "error"
    /\ mainpc' = "end"
    /\ UNCHANGED <<stories_file, today, runs, reported, overlapped,
                   dup_skipped, links_seen, faults>>
    /\ UNCHANGED <<prog, env, blocks, digest, outcomes, sinks>>

\* lines 428-440: the webhook, and the report printed when it did not send
ScanNotify ==
    /\ prog = "monitor" /\ mainpc = "scan_slack"
    /\ \E r \in ScanSlackResults(env) :
          sinks' = <<SinkCall("slack", r, digest)>>
                      \o (IF r = "sent" THEN <<>>
                          ELSE <<SinkCall("print", "sent", digest)>>)
    /\ status' = "success"
    /\ mainpc' = "end"
    /\ UNCHANGED <<prog, env, blocks, digest, outcomes>>
    /\ UNCHANGED alertVars

\* lines 449-451: the script is started again
ScanAgain ==
    /\ prog = "monitor" /\ mainpc = "end"
    /\ status # "setup_required"
    /\ runs < MaxRuns
    /\ mainpc' = "scan_start"
    /\ digest' = None /\ sinks' = <<>> /\ status' = NoString
    /\ UNCHANGED <<prog, env, blocks, outcomes>>
    /\ UNCHANGED alertVars

(***************************************************************************)
(* Specifications                                                          *)
(***************************************************************************)

\* one or two runs of reddit_insight or of reddit_story
Init == InitScout /\ ClassIdle /\ ScoreIdle /\ AlertIdle /\ MainIdle

Next ==
    \/ (StartNoAccess /\ UNCHANGED <<classVars, scoreVars, alertVars, mainVars>>)
    \/ (StartLoop /\ UNCHANGED <<classVars, scoreVars, alertVars, mainVars>>)
    \/ \E post \in PostPool : InsightPost(post) /\ UNCHANGED <<classVars, scoreVars, alertVars, mainVars>>
    \/ (InsightNextSearch /\ UNCHANGED <<classVars, scoreVars, alertVars, mainVars>>)
    \/ (InsightSearchRaises /\ UNCHANGED <<classVars, scoreVars, alertVars, mainVars>>)
    \/ (InsightReturn /\ UNCHANGED <<classVars, scoreVars, alertVars, mainVars>>)
    \/ \E post \in PostPool : StoryPost(post) /\ UNCHANGED <<classVars, scoreVars, alertVars, mainVars>>
    \/ (StoryNextQuery /\ UNCHANGED <<classVars, scoreVars, alertVars, mainVars>>)
    \/ (StoryRaises /\ UNCHANGED <<classVars, scoreVars, alertVars, mainVars>>)
    \/ (StoryReturn /\ UNCHANGED <<classVars, scoreVars, alertVars, mainVars>>)
    \/ (NextRun /\ UNCHANGED <<classVars, scoreVars, alertVars, mainVars>>)

Spec == Init /\ [][Next]_vars

\* classify_reddit_content on every title and body of the bounded vocabulary
InitC == InitClassify /\ ScoutIdle /\ ScoreIdle /\ AlertIdle /\ MainIdle

NextC == Classify /\ UNCHANGED <<scoutVars, scoreVars, alertVars, mainVars>>

SpecClassify == InitC /\ [][NextC]_vars

\* the score of every pair of candidates
InitS == InitScore /\ ScoutIdle /\ ClassIdle /\ AlertIdle /\ MainIdle

NextS == ScorePair /\ UNCHANGED <<scoutVars, classVars, alertVars, mainVars>>

SpecScore == InitS /\ [][NextS]_vars

\* runs of process_new_stories on one stories file, overlapping or not
InitA == InitAlerts /\ ScoutIdle /\ ClassIdle /\ ScoreIdle /\ MainIdle

NextA ==
    \/ \E m \in Monitors : Load(m) /\ UNCHANGED <<scoutVars, classVars, scoreVars, mainVars>>
    \/ \E m \in Monitors : LoadRaises(m) /\ UNCHANGED <<scoutVars, classVars, scoreVars, mainVars>>
    \/ \E m \in Monitors : \E link \in LinkPool :
          ProcessLink(m, link) /\ UNCHANGED <<scoutVars, classVars, scoreVars, mainVars>>
    \/ \E m \in Monitors : Save(m) /\ UNCHANGED <<scoutVars, classVars, scoreVars, mainVars>>
    \/ \E m \in Monitors : SaveFails(m) /\ UNCHANGED <<scoutVars, classVars, scoreVars, mainVars>>
    \/ \E d \in DayJumps : TimePasses(d) /\ UNCHANGED <<scoutVars, classVars, scoreVars, mainVars>>

SpecStories == InitA /\ [][NextA]_vars

\* format_digest on every list of blocks
InitD == InitDigest /\ ScoutIdle /\ ClassIdle /\ ScoreIdle /\ AlertIdle

NextD == FormatDigest /\ UNCHANGED <<scoutVars, classVars, scoreVars, alertVars>>

SpecDigest == InitD /\ [][NextD]_vars

\* one run of scout.main, or the runs of run_story_scan, in every environment
InitM ==
    /\ \/ InitMainScout /\ AlertIdle
       \/ InitMainScan /\ AlertsOne
    /\ ScoutIdle /\ ClassIdle /\ ScoreIdle

NextM ==
    \/ MetaAd /\ UNCHANGED <<scoutVars, classVars, scoreVars, alertVars>>
    \/ RedditInsight /\ UNCHANGED <<scoutVars, classVars, scoreVars, alertVars>>
    \/ RedditStory /\ UNCHANGED <<scoutVars, classVars, scoreVars, alertVars>>
    \/ MainDigest /\ UNCHANGED <<scoutVars, classVars, scoreVars, alertVars>>
    \/ MainSendSlack /\ UNCHANGED <<scoutVars, classVars, scoreVars, alertVars>>
    \/ MainSendEmail /\ UNCHANGED <<scoutVars, classVars, scoreVars, alertVars>>
    \/ ScanSetupRequired /\ UNCHANGED <<scoutVars, classVars, scoreVars>>
    \/ ScanLoad /\ UNCHANGED <<scoutVars, classVars, scoreVars>>
    \/ ScanLoadRaises /\ UNCHANGED <<scoutVars, classVars, scoreVars>>
    \/ ScanLink /\ UNCHANGED <<scoutVars, classVars, scoreVars>>
    \/ ScanSave /\ UNCHANGED <<scoutVars, classVars, scoreVars>>
    \/ ScanSaveFails /\ UNCHANGED <<scoutVars, classVars, scoreVars>>
    \/ ScanRaises /\ UNCHANGED <<scoutVars, classVars, scoreVars>>
    \/ ScanNotify /\ UNCHANGED <<scoutVars, classVars, scoreVars>>
    \/ ScanAgain /\ UNCHANGED <<scoutVars, classVars, scoreVars>>

SpecMain == InitM /\ [][NextM]_vars

(***************************************************************************)
(* Properties of classify_reddit_content (SpecClassify)                    *)
(***************************************************************************)

Classified == cpc = "classified"

\* C1, as stated: a pain-indicator phrase anywhere in the lowercased
\* concatenation of title and body gives pain_point with confidence >= 0.9.
C1_PainAnywhere ==
    (Classified /\ ContainsAny(Lower(Combine(title, selftext)), pain_indicators))
        => (result.category = "pain_point" /\ result.confidence >= 90)

\* C1, amended: a pain-indicator phrase in the lowercased title gives
\* pain_point with confidence >= 0.9, whatever success or question phrase
\* the title or the body also holds.
C1_PainInTitle ==
    (Classified /\ ContainsAny(Lower(title), pain_indicators))
        => (result.category = "pain_point" /\ result.confidence >= 90)

\* a title with a pain phrase and a question mark, a body with a success
\* phrase, classified pain_point
C1_Witness ==
    /\ Classified
    /\ ContainsAny(Lower(title), pain_indicators)
    /\ QuestionRule(title)
    /\ GeneralRule(title, selftext)
    /\ result = Verdict("pain_point", 95)

\* C2, as stated: priority pain, success, question, completion: no pain
\* indicator, a success rule and a question rule give testimonial; a
\* question rule and a completion rule give motivation.
C2_SuccessBeforeQuestion ==
    Classified =>
        /\ ( /\ ~ContainsAny(Lower(Combine(title, selftext)), pain_indicators)
             /\ (ExplicitRule(title, selftext) \/ GeneralRule(title, selftext))
             /\ QuestionRule(title) )
              => result.category = "testimonial"
        /\ ( /\ ~ContainsAny(Lower(Combine(title, selftext)), pain_indicators)
             /\ ~(ExplicitRule(title, selftext) \/ GeneralRule(title, selftext))
             /\ QuestionRule(title)
             /\ CompletionRule(title, selftext) )
              => result.category = "motivation"

\* C2, amended: priority pain, question, success, completion, the first
\* matching rule wins: without a pain indicator in the title, a question
\* rule gives motivation also when a success or a completion rule matches,
\* and a success rule gives testimonial also when a completion rule matches.
C2_QuestionBeforeSuccess ==
    Classified =>
        /\ PainRule(title) => result.category = "pain_point"
        /\ (~PainRule(title) /\ QuestionRule(title))
              => (result.category = "motivation" /\ result.confidence \in {85, 90})
        /\ ( /\ ~PainRule(title) /\ ~QuestionRule(title)
             /\ (ExplicitRule(title, selftext) \/ GeneralRule(title, selftext)) )
              => result.category = "testimonial"
        /\ ( /\ ~PainRule(title) /\ ~QuestionRule(title)
             /\ ~(ExplicitRule(title, selftext) \/ GeneralRule(title, selftext))
             /\ CompletionRule(title, selftext) )
              => result.category = "course_rec"

\* no pain indicator, a question rule and a success rule: motivation
C2_Witness ==
    /\ Classified
    /\ ~ContainsAny(Lower(Combine(title, selftext)), pain_indicators)
    /\ QuestionRule(title)
    /\ GeneralRule(title, selftext)
    /\ result.category = "motivation"

(***************************************************************************)
(* Properties of the selection loops (Spec)                                *)
(***************************************************************************)

Insight == fn = "reddit_insight"

\* the function returned, and not because an exception escaped its loop
Completed == pc = "done" /\ last # "raised"

Score(i) == accepted[i].cand.score

\* the accepted candidate of greatest score, the earliest of them on a tie
FirstMax ==
    CHOOSE k \in DOMAIN accepted :
        /\ \A j \in DOMAIN accepted : Score(j) <= Score(k)
        /\ \A j \in 1..(k - 1) : Score(j) < Score(k)

BlockOf(i) ==
    IF Insight THEN InsightBlock(accepted[i].cand)
    ELSE StoryBlock(accepted[i].cand.data, accepted[i].cand.score)

\* C3: in reddit_insight a post below its search's min_ups or min_sentiment
\* never reaches scoring, is never best_candidate and is never returned.
C3_BelowThresholdDiscarded ==
    Insight =>
        /\ \A i \in DOMAIN accepted :
              /\ accepted[i].cand.data.ups >= searches[accepted[i].search].min_ups
              /\ accepted[i].cand.data.sentiment
                    >= searches[accepted[i].search].min_sentiment
        /\ best_candidate # None
              => \E i \in DOMAIN accepted :
                    accepted[i].cand = best_candidate /\ best_score = Score(i)
        /\ returned # None
              => \E i \in DOMAIN accepted : returned = InsightBlock(accepted[i].cand)

\* a post below min_ups was handled last, and the block returned is that of
\* a candidate accepted before it
C3_Witness ==
    /\ Insight /\ pc = "done"
    /\ last = "low_ups"
    /\ returned # None

\* C4, as stated: of two accepted candidates equal in upvotes, confidence and
\* category, sentiment above 0.5 scores strictly higher than sentiment at
\* most 0.3, and age under 7 days strictly higher than age over 30 days.
C4_SentimentRecencyBonus ==
    Insight =>
        \A i, j \in DOMAIN accepted :
            LET a == accepted[i].cand
                b == accepted[j].cand
            IN  (a.upvotes = b.upvotes /\ a.confidence = b.confidence /\ a.type = b.type)
                  => /\ (a.sentiment > 50 /\ b.sentiment <= 30) => a.score > b.score
                     /\ (a.data.age_days < 7 /\ b.data.age_days > 30)
                           => a.score > b.score

\* C4, amended: the score of an accepted candidate is upvotes * confidence *
\* category weight (10 testimonial, 3 pain_point, 1 course_rec), the weight
\* applied once; sentiment and age do not enter it: two accepted candidates
\* equal in upvotes, confidence and category have the same score.
C4_ScoreIsUpsConfWeight ==
    Insight =>
        /\ \A i \in DOMAIN accepted :
              LET a == accepted[i].cand
              IN  a.score = a.upvotes * a.confidence
                              * (CASE a.type = "testimonial" -> 10
                                   [] a.type = "pain_point"  -> 3
                                   [] a.type = "course_rec"  -> 1)
        /\ \A i, j \in DOMAIN accepted :
              LET a == accepted[i].cand
                  b == accepted[j].cand
              IN  (a.upvotes = b.upvotes /\ a.confidence = b.confidence /\ a.type = b.type)
                    => a.score = b.score

\* two accepted candidates equal in upvotes, confidence and category, one
\* with sentiment 0.6 and 3 days old, the other 0.3 and 40 days old
C4_Witness ==
    /\ Insight
    /\ \E i, j \in DOMAIN accepted :
          LET a == accepted[i].cand
              b == accepted[j].cand
          IN  /\ a.upvotes = b.upvotes /\ a.confidence = b.confidence /\ a.type = b.type
              /\ a.sentiment > 50 /\ b.sentiment <= 30
              /\ a.data.age_days < 7 /\ b.data.age_days > 30
              /\ a.score = b.score

BestOfCategory(c) ==
    CHOOSE k \in DOMAIN accepted :
        /\ accepted[k].cand.type = c
        /\ \A j \in DOMAIN accepted :
              accepted[j].cand.type = c => Score(j) <= Score(k)
        /\ \A j \in 1..(k - 1) :
              accepted[j].cand.type = c => Score(j) < Score(k)

AcceptedCategories == { accepted[i].cand.type : i \in DOMAIN accepted }

Selection == IF returned = None THEN {} ELSE {returned}

C8_SecondRunExcludesSeen ==
    (run = 2 /\ pc = "done" /\ first_digest # NoString)
        => (returned = None \/ returned.link # first_digest)

(***************************************************************************)
(* Properties of the scoring arithmetic (SpecScore)                        *)
(***************************************************************************)

Scored == spc = "scored"

SameUpsAndConfidence ==
    cand_a.ups = cand_b.ups /\ cand_a.confidence = cand_b.confidence

NoTwoSameId(stories) ==
    \A i, j \in DOMAIN stories : stories[i].id = stories[j].id => i = j

\* C9: within a run no id is appended to new_stories twice, every accepted
\* story is recorded in existing_stories under its id, and neither the dict
\* nor the saved stories list holds two stories with the same id.
C9_NoIdTwice ==
    /\ \A m \in Monitors :
          /\ NoTwoSameId(new_stories[m])
          /\ NoTwoSameId(existing_stories[m])
          /\ \A i \in DOMAIN new_stories[m] :
                \E k \in DOMAIN existing_stories[m] :
                    existing_stories[m][k] = new_stories[m][i]
    /\ \A r \in DOMAIN reported : NoTwoSameId(reported[r])
    /\ stories_file # NoFile => NoTwoSameId(stories_file.stories)

\* a run met a link whose id it had accepted before, skipped it, and saved
C9_Witness ==
    /\ dup_skipped
    /\ stories_file # NoFile
    /\ \E r \in DOMAIN reported : Len(reported[r]) = 1
    /\ Len(stories_file.stories) = 1

\* C10: a load leaves out every entry found more than 30 days before it,
\* and keeps an entry found 29 days before it.
C10_PrunedOnLoad ==
    \A m \in Monitors :
        /\ \A i \in DOMAIN loaded[m].stories :
              loaded[m].at - loaded[m].stories[i].found_date <= 30
        /\ ~loaded[m].raised =>
              \A i \in DOMAIN loaded[m].file :
                  loaded[m].at - loaded[m].file[i].found_date = 29
                      => \E k \in DOMAIN loaded[m].stories :
                            loaded[m].stories[k] = loaded[m].file[i]

\* C11: two links that point at the same LinkedIn url derive the same id,
\* whatever their anchor text: a run that loaded a story of some url finds
\* every link to that url already seen and reports no new story for it.
C11_SameUrlSameId ==
    \A m \in Monitors :
        \A i \in DOMAIN new_stories[m] : \A k \in DOMAIN loaded[m].stories :
            new_stories[m][i].url = loaded[m].stories[k].url
                => new_stories[m][i].id = loaded[m].stories[k].id

(***************************************************************************)
(* Properties of format_digest (SpecDigest)                                *)
(***************************************************************************)

IsBlock(x) == x \notin {None, EmptyString, EmptyLine, Separator}

CountOf(x, seq) == Cardinality({ i \in DOMAIN seq : seq[i] = x })

\* C12: format_digest returns None exactly when the list holds no non-empty
\* block; otherwise the non-empty blocks in input order, k blocks with k-1
\* separators, one between each two consecutive blocks, none before the
\* first or after the last.
C12_DigestJoinsBlocks ==
    (prog = "format_digest" /\ mainpc = "returned") =>
        LET given == SelectSeq(blocks, IsBlock)
            k     == Len(given)
        IN  /\ (digest = None) <=> (k = 0)
            /\ k > 0 =>
                  /\ SelectSeq(digest.text, IsBlock) = given
                  /\ CountOf(Separator, digest.text) = k - 1
                  /\ Len(digest.text) = 4 * k - 3
                  /\ \A i \in 1..k : digest.text[4 * i - 3] = given[i]
                  /\ \A i \in 1..(k - 1) :
                        /\ digest.text[4 * i - 2] = EmptyLine
                        /\ digest.text[4 * i - 1] = Separator
                        /\ digest.text[4 * i] = EmptyLine

\* a list of three with None in the middle: two blocks and one separator
C12_Witness ==
    /\ prog = "format_digest" /\ mainpc = "returned"
    /\ Len(blocks) = 3 /\ blocks[2] = None
    /\ IsBlock(blocks[1]) /\ IsBlock(blocks[3])
    /\ digest = [text |-> <<blocks[1], EmptyLine, Separator, EmptyLine, blocks[3]>>]

(***************************************************************************)
(* Properties of scout.main and run_story_scan (SpecMain)                  *)
(***************************************************************************)

ScoutMain == prog = "scout"

Fetched == ScoutMain /\ Len(blocks) = 3

PastFormat == mainpc \in {"send_slack", "send_email", "end"}

AllNull == \A i \in DOMAIN blocks : blocks[i] = None

\* the sink calls of a finished run of main: the webhook, then the email
\* when the webhook did not send
WebhookThenEmail(msg) ==
    /\ sinks # <<>>
    /\ sinks[1] \in { SinkCall("slack", r, msg) : r \in {"sent", "failed", "not_configured"} }
    /\ IF sinks[1].result = "sent" THEN Len(sinks) = 1
       ELSE /\ Len(sinks) = 2
            /\ sinks[2] \in { SinkCall("email", r, msg) :
                                r \in {"sent", "failed", "not_configured"} }

\* C13: when all three sources return None, format_digest returns None, the
\* digest is the fallback text, and the send step is executed with it: the
\* webhook, then the email when the webhook did not send.
C13_AllNullFallback ==
    (Fetched /\ AllNull) =>
        /\ format_digest(blocks) = None
        /\ PastFormat => digest = FallbackInsight
        /\ mainpc = "send_email" => sinks = <<SinkCall("slack", sinks[1].result,
                                                       FullMsg(FallbackInsight))>>
        /\ mainpc = "end" => WebhookThenEmail(FullMsg(FallbackInsight))

\* all three sources returned None, the webhook failed and the email carried
\* the fallback text
C13_Witness ==
    /\ Fetched /\ AllNull /\ mainpc = "end"
    /\ sinks = << SinkCall("slack", "failed", FullMsg(FallbackInsight)),
                  SinkCall("email", "sent", FullMsg(FallbackInsight)) >>


\* a run that came to its notification step and ended
Notified ==
    /\ mainpc = "end"
    /\ prog = "scout" \/ (prog = "monitor" /\ status = "success")

\* C14: in scout.main and in run_story_scan the webhook is tried first and
\* the email second: the email send is called if and only if the webhook
\* was not configured or its attempt failed, and after the webhook call.
C14_WebhookFirstEmailSecond ==
    Notified =>
        /\ sinks # <<>> /\ sinks[1].sink = "slack"
        /\ (\E i \in DOMAIN sinks : sinks[i].sink = "email")
              <=> sinks[1].result # "sent"
        /\ \A i \in DOMAIN sinks : sinks[i].sink = "email" => i = 2


\* C15: a source whose credential is absent returns None and contributes no
\* block to the digest, and the run goes on to the other sources.
C15_NoCredentialNull ==
    ScoutMain =>
        \A i \in DOMAIN outcomes :
            outcomes[i].how = "no_credential"
                => /\ blocks[i] = None
                   /\ (PastFormat /\ digest # FallbackInsight)
                         => \A k \in DOMAIN digest.text :
                               IsBlock(digest.text[k])
                                  => digest.text[k].source # outcomes[i].source


\* the blocks the sources of this run returned, in call order
ReturnedBlocks ==
    SelectSeq([i \in DOMAIN outcomes |-> outcomes[i].value], IsBlock)

\* C16: whatever each source did (returned a block, returned None, raised),
\* a source that raised yields None, main goes on to the next source and to
\* the send step, and the digest holds exactly the blocks of the sources
\* that returned one, or is the fallback text when none did.
C16_ExceptionDegradesToNull ==
    ScoutMain =>
        /\ Len(blocks) = Len(outcomes)
        /\ \A i \in DOMAIN outcomes :
              /\ outcomes[i].how = "raised" => blocks[i] = None
              /\ outcomes[i].how # "raised" => blocks[i] = outcomes[i].value
        /\ PastFormat =>
              /\ Len(outcomes) = 3
              /\ digest = (IF ReturnedBlocks = <<>> THEN FallbackInsight
                           ELSE format_digest(ReturnedBlocks))
              /\ digest # FallbackInsight =>
                    SelectSeq(digest.text, IsBlock) = ReturnedBlocks
        /\ mainpc = "end" => WebhookThenEmail(FullMsg(digest))

\* one source raised, one returned None, one returned a block, and the
\* digest made of that block was sent
C16_Witness ==
    /\ ScoutMain /\ mainpc = "end"
    /\ \E i, j, k \in DOMAIN outcomes :
          /\ outcomes[i].how = "raised"
          /\ outcomes[j].how = "returned" /\ outcomes[j].value = None
          /\ outcomes[k].how = "returned" /\ IsBlock(outcomes[k].value)
          /\ digest = [text |-> <<outcomes[k].value>>]
    /\ sinks[1] = SinkCall("slack", "sent", FullMsg(digest))


(***************************************************************************)
(* Properties of runs on one stories file (SpecStories)                    *)
(***************************************************************************)

InFile(story) ==
    /\ stories_file # NoFile
    /\ \E k \in DOMAIN stories_file.stories : stories_file.stories[k].id = story.id

\* every load and every save so far did what it was asked
NoFault == faults = {}

\* C17: a run that saves leaves its own store in the file, whatever another
\* run wrote since it loaded (the last writer wins, so that with overlapping
\* runs a story of the earlier writer can be lost); as long as no two runs
\* have overlapped, every story a finished run reported is in the file.
C17_LastWriterWins ==
    /\ [][ \A m \in Monitors :
              (mpc[m] = "scan" /\ mpc'[m] = "idle" /\ stories_file' # stories_file)
                  => stories_file' = Finished(m) ]_vars
    /\ [] ( (~overlapped /\ NoFault) =>
              \A r \in DOMAIN reported : \A i \in DOMAIN reported[r] :
                  InFile(reported[r][i]) )

\* two overlapping runs both saved: a story the first writer reported is
\* not in the file, the stories of the last writer are
C17_Witness ==
    /\ overlapped /\ NoFault
    /\ \A m \in Monitors : mpc[m] = "idle"
    /\ Len(reported) = 2
    /\ \E i \in DOMAIN reported[1] : ~InFile(reported[1][i])
    /\ reported[2] # <<>>
    /\ \A i \in DOMAIN reported[2] : InFile(reported[2][i])


\* the ids a finished run reported
ReportedIds(r) == { reported[r][i].id : i \in DOMAIN reported[r] }

ReportedOnce ==
    /\ \A r, q \in DOMAIN reported : r # q => ReportedIds(r) \cap ReportedIds(q) = {}
    /\ \A m \in Monitors : \A i \in DOMAIN new_stories[m] : \A r \in DOMAIN reported :
          new_stories[m][i].id \notin ReportedIds(r)

ScenarioPost == CHOOSE p \in PostPool : p.id = "t3_hired" /\ p.ups = 12

\* a text with no pain or question rule in its title that mentions Coursera
\* and holds a generic success term
GenericSuccess(post) ==
    /\ ~PainRule(post.title) /\ ~QuestionRule(post.title)
    /\ Contains(Lower(Combine(post.title, post.selftext)), <<"coursera">>)
    /\ ContainsAny(Lower(Combine(post.title, post.selftext)), success_terms)

\* every such text among the posts is classified testimonial, >= 0.8
GenericSuccessIsTestimonial ==
    \A post \in PostPool :
        GenericSuccess(post) =>
            LET v == classify_reddit_content(post.title, post.selftext)
            IN  v.category = "testimonial" /\ v.confidence >= 80

\* the scenario post is such a text and passes the first search
ScenarioPasses ==
    /\ GenericSuccess(ScenarioPost)
    /\ searches[1].type = "testimonial" /\ searches[1].min_ups = 3
    /\ InsightOutcome(ScenarioPost, searches[1]) = "scored"

\* C18: the scenario post is classified testimonial with confidence >= 0.8,
\* passes the testimonial search with min_ups = 3 and is scored above 0, so
\* that it is accepted whenever that search hands it out; and every text
\* with a generic success term and a mention of Coursera, and no pain or
\* question rule, is classified testimonial with confidence >= 0.8.
C18_ScenarioTestimonial ==
    /\ GenericSuccessIsTestimonial
    /\ ScenarioPasses
    /\ Insight =>
          \A i \in DOMAIN accepted :
              accepted[i].cand.data = ScenarioPost
                  => /\ accepted[i].cand.type = "testimonial"
                     /\ accepted[i].cand.confidence >= 80
                     /\ accepted[i].cand.score > 0

\* the scenario post was handed out by the first search, accepted with score
\* 12 * 0.8 * 10 and returned as the block of the run
C18_Witness ==
    /\ Insight /\ Completed
    /\ accepted = << [cand |-> Candidate(ScenarioPost, searches[1], 80, 9600),
                      search |-> 1] >>
    /\ returned = InsightBlock(accepted[1].cand)


\* what the classifier says of an accepted candidate's post
VerdictOf(i) ==
    classify_reddit_content(accepted[i].cand.data.title, accepted[i].cand.data.selftext)

\* C20: reddit_insight accepts no post whose category differs from the type
\* of the search that handed it out, none classified below 0.7 and so none
\* of the default (motivation, 0.3), and none of category motivation; the
\* best candidate and the returned block are those of an accepted post.
C20_TypeAndConfidenceKept ==
    Insight =>
        /\ \A i \in DOMAIN accepted :
              /\ VerdictOf(i).category = searches[accepted[i].search].type
              /\ VerdictOf(i).confidence >= 70
              /\ VerdictOf(i) # Verdict("motivation", 30)
              /\ VerdictOf(i).category # "motivation"
        /\ best_candidate # None
              => \E i \in DOMAIN accepted : best_candidate = accepted[i].cand
        /\ returned # None
              => \E i \in DOMAIN accepted : returned = InsightBlock(accepted[i].cand)

\* the last post of the run was turned away for its category, and the block
\* returned is that of the one post accepted before it
C20_Witness ==
    /\ Insight /\ pc = "done"
    /\ last = "type_mismatch"
    /\ Len(accepted) = 1
    /\ returned = InsightBlock(accepted[1].cand)


\* str.upper() on the labels of type_labels
UpperLabel(label) ==
    CASE label = "Coursera Success Story" -> "COURSERA SUCCESS STORY"
      [] label = "Career Pain Point"      -> "CAREER PAIN POINT"
      [] label = "User Question"          -> "USER QUESTION"
      [] label = "Course Experience"      -> "COURSE EXPERIENCE"

\* C21: the header of the block reddit_insight returns is the label that
\* type_labels gives for the category of the selected candidate (letter case
\* apart): the pain-point label for a pain_point, the course-experience
\* label for a course_rec, the success-story label for a testimonial only.
C21_HeaderNamesCategory ==
    (Insight /\ Completed /\ returned # None) =>
        returned.header = UpperLabel(type_labels[best_candidate.type])


(***************************************************************************)
(* Properties of a load that raises (SpecStories)                          *)
(***************************************************************************)

\* the run of m ends and leaves the file changed: its save wrote the file
Wrote(m) == mpc[m] = "scan" /\ mpc'[m] = "idle" /\ stories_file' # stories_file

Kept(story, stories) == \E k \in DOMAIN stories : stories[k] = story

=============================================================================
